---- MODULE Spec2Model ----
(***************************************************************************)
(* Model of the image service of src/main.py: a directory tree             *)
(* images/<category>/<filename> and one table "images" (src/models/        *)
(* image.py), kept in step by the request handlers upload_image,           *)
(* delete_all, delete_category, get_image and delete_image.                *)
(*                                                                         *)
(* Strings are sequences of atoms.  The atoms "/", "\\" and "." are the    *)
(* characters the code inspects; every other atom is a run of ordinary     *)
(* characters ("pets", "png", "PNG", the text of a uuid).                  *)
(***************************************************************************)
EXTENDS Integers, Sequences, FiniteSets, TLC

VARIABLES
    files,      \* the regular files under images/: <<category, filename>> -> content
    dirs,       \* the sub-directories of images/ that exist
    rows,       \* the rows of table "images": [id, filename, category]
    nextId,     \* the next value of the table's id sequence
    last,       \* the response (and request) of the last handler that returned
    up,         \* the in-flight upload_image request (concurrent specification)
    del         \* the in-flight delete request (concurrent specification)

vars == <<files, dirs, rows, nextId, last, up, del>>

---------------------------------------------------------------------------
(* Bounds and program constants *)

MaxId == 2
MaxUuid == 2
MAX_FILE_SIZE == 10485760
CHUNK_SIZE == 65536

ALLOWED_EXTENSIONS == { <<"png">>, <<"jpg">>, <<"jpeg">>, <<"webp">>, <<"jfif">>, <<"avif">> }

---------------------------------------------------------------------------
(* String helpers: what str and os.path do to the strings the code hands them *)

Min(a, b) == IF a < b THEN a ELSE b

\* the greatest index i with s[i] = a, 0 when there is none (str.rfind, 1-based)
RFind(s, a) ==
    LET hits == { i \in 1..Len(s) : s[i] = a }
    IN  IF hits = {} THEN 0 ELSE CHOOSE i \in hits : \A j \in hits : j <= i

\* s.startswith(p)
StartsWith(s, p) == Len(s) >= Len(p) /\ SubSeq(s, 1, Len(p)) = p

\* p in s, for a substring p
Contains(s, p) == \E i \in 1..Len(s) : i + Len(p) - 1 <= Len(s) /\ SubSeq(s, i, i + Len(p) - 1) = p

\* s.split("/")
RECURSIVE Split(_)
Split(s) ==
    LET cut == { i \in 1..Len(s) : s[i] = "/" }
    IN  IF cut = {} THEN << s >>
        ELSE LET i == CHOOSE k \in cut : \A j \in cut : k <= j
             IN  << SubSeq(s, 1, i - 1) >> \o Split(SubSeq(s, i + 1, Len(s)))

\* "/".join(comps)
RECURSIVE Join(_)
Join(comps) ==
    IF comps = << >> THEN << >>
    ELSE IF Len(comps) = 1 THEN comps[1]
    ELSE comps[1] \o << "/" >> \o Join(Tail(comps))

\* the loop of posixpath.normpath over the components
RECURSIVE NormComps(_, _, _)
NormComps(comps, acc, initial_slashes) ==
    IF comps = << >> THEN acc
    ELSE LET comp == Head(comps)
             rest == Tail(comps)
         IN  IF comp = << >> \/ comp = << "." >> THEN NormComps(rest, acc, initial_slashes)
             ELSE IF \/ comp # << ".", "." >>
                     \/ (initial_slashes = 0 /\ acc = << >>)
                     \/ (acc # << >> /\ acc[Len(acc)] = << ".", "." >>)
                  THEN NormComps(rest, Append(acc, comp), initial_slashes)
             ELSE IF acc # << >> THEN NormComps(rest, SubSeq(acc, 1, Len(acc) - 1), initial_slashes)
             ELSE NormComps(rest, acc, initial_slashes)

\* os.path.normpath (posixpath)
normpath(path) ==
    IF path = << >> THEN << "." >>
    ELSE LET initial_slashes ==
                 IF ~StartsWith(path, << "/" >>) THEN 0
                 ELSE IF StartsWith(path, << "/", "/" >>) /\ ~StartsWith(path, << "/", "/", "/" >>) THEN 2
                 ELSE 1
             body == Join(NormComps(Split(path), << >>, initial_slashes))
             out == (IF initial_slashes = 2 THEN << "/", "/" >>
                     ELSE IF initial_slashes = 1 THEN << "/" >> ELSE << >>) \o body
         IN  IF out = << >> THEN << "." >> ELSE out

\* os.path.splitext: <<root, ext>>, ext with its dot; leading dots of the
\* base name are no extension
splitext(p) ==
    LET sepIndex == RFind(p, "/")
        dotIndex == RFind(p, ".")
    IN  IF dotIndex > sepIndex /\ \E i \in (sepIndex + 1)..(dotIndex - 1) : p[i] # "."
        THEN << SubSeq(p, 1, dotIndex - 1), SubSeq(p, dotIndex, Len(p)) >>
        ELSE << p, << >> >>

\* str.lower, atom by atom
LowerAtom(a) ==
    CASE a = "PNG" -> "png"
      [] a = "JPG" -> "jpg"
      [] a = "Exe" -> "exe"
      [] OTHER -> a

lower(s) == [ i \in 1..Len(s) |-> LowerAtom(s[i]) ]

\* str.lstrip(".")
RECURSIVE lstripDot(_)
lstripDot(s) == IF s # << >> /\ Head(s) = "." THEN lstripDot(Tail(s)) ELSE s

---------------------------------------------------------------------------
(* Input validation *)

\* validate_file_extension: the lower-cased extension without its dot, or 400
validate_file_extension(filename) ==
    LET ext == lstripDot(lower(splitext(filename)[2]))
    IN  IF ext = << >> THEN [ok |-> FALSE, value |-> << >>]
        ELSE IF ext \notin ALLOWED_EXTENSIONS THEN [ok |-> FALSE, value |-> ext]
        ELSE [ok |-> TRUE, value |-> ext]

\* validate_category without the test for a leading ".."
validate_category_separators_only(category) ==
    LET safe_category == normpath(category)
    IN  IF \/ Contains(safe_category, << "/" >>)
           \/ Contains(safe_category, << "\\" >>)
        THEN [ok |-> FALSE, value |-> safe_category]
        ELSE [ok |-> TRUE, value |-> safe_category]

\* validate_category: the normalised category, or 400
validate_category(category) ==
    LET safe_category == normpath(category)
    IN  IF \/ StartsWith(safe_category, << ".", "." >>)
           \/ Contains(safe_category, << "/" >>)
           \/ Contains(safe_category, << "\\" >>)
        THEN [ok |-> FALSE, value |-> safe_category]
        ELSE [ok |-> TRUE, value |-> safe_category]

\* the filename check get_image and delete_image open with
valid_filename(filename) ==
    ~ ( \/ Contains(filename, << ".", "." >>)
        \/ Contains(filename, << "/" >>)
        \/ Contains(filename, << "\\" >>) )

---------------------------------------------------------------------------
(* The filesystem under images/ and the table *)

NoContent == [tag |-> 0, size |-> 0]

EmptyFiles == [ p \in {} |-> NoContent ]

Root == << "." >>

\* os.path.join(BASE_UPLOAD_DIR, category, filename): category "." is images/ itself
PathOf(category, filename) == << category, filename >>

Restrict(f, S) == [ p \in S |-> f[p] ]

RemoveFiles(f, S) == Restrict(f, DOMAIN f \ S)

PutFile(f, path, content) ==
    [ p \in DOMAIN f \cup {path} |-> IF p = path THEN content ELSE f[p] ]

\* os.makedirs(category_dir, exist_ok=True): images/ itself always exists
makedirs(ds, category) == IF category = Root THEN ds ELSE ds \cup {category}

\* os.path.exists(category_dir)
DirExists(ds, category) == category = Root \/ category \in ds

\* the streaming copy of upload_image: file.read(CHUNK_SIZE) until it returns
\* nothing, each chunk written as it is read.  ChunkLen is the length of the
\* i-th chunk read, WrittenBy the bytes written by chunks lo..hi (summed by
\* halves, which keeps the evaluation shallow), CopyChunks the whole loop.
ChunkLen(size, i) == Min(CHUNK_SIZE, size - (i - 1) * CHUNK_SIZE)

RECURSIVE WrittenBy(_, _, _)
WrittenBy(size, lo, hi) ==
    IF lo > hi THEN 0
    ELSE IF lo = hi THEN ChunkLen(size, lo)
    ELSE LET mid == (lo + hi) \div 2
         IN  WrittenBy(size, lo, mid) + WrittenBy(size, mid + 1, hi)

\* the copy with an if for the while: one read, one write
CopyFirstChunk(size) == IF size = 0 THEN 0 ELSE ChunkLen(size, 1)

CopyChunks(size) ==
    LET reads == (size + CHUNK_SIZE - 1) \div CHUNK_SIZE
    IN  WrittenBy(size, 1, reads)

\* what the file holds once the copy loop has run over the uploaded content
Stored(content) == [tag |-> content.tag, size |-> CopyChunks(content.size)]

\* f"{uuid.uuid4()}.{ext}"
GeneratedName(u, ext) == << ToString(u) >> \o << "." >> \o ext

\* the unique constraint on images.filename
DuplicateFilename(rs, filename) == \E r \in rs : r.filename = filename

\* db.query(Image).filter(Image.filename == filename).first()
ByFilename(rs, filename) == { r \in rs : r.filename = filename }

\* db.query(Image).filter(Image.category == category).all()
ByCategory(rs, category) == { r \in rs : r.category = category }

\* db.delete(image) with the commit left out
DeleteRowUncommitted(rs, image) == rs

\* db.delete(image); db.commit()

DeleteRow(rs, image) == rs \ {image}

\* the except branch of the insert with the removal left out
InsertFailureCleanupSkipped(f, path) == f

\* the except branch of the insert: if os.path.exists(file_path): os.remove(file_path)

InsertFailureCleanup(f, path) == RemoveFiles(f, {path})

\* the except branch of the write: the same removal
WriteFailureCleanup(f, path) == RemoveFiles(f, {path})

\* shutil.rmtree(category_dir): the set of [files, dirs, ok] it can end in.
\* On images/. it empties the directory and then fails on rmdir("images/.")
\* (EINVAL); a fault inside the walk leaves any part of the tree removed.
Rmtree(f, ds, category, fault) ==
    LET inside == IF category = Root THEN DOMAIN f
                  ELSE { p \in DOMAIN f : p[1] = category }
    IN  IF fault = "blob"
        THEN { [files |-> RemoveFiles(f, S), dirs |-> ds, ok |-> FALSE] : S \in SUBSET inside }
        ELSE IF category = Root
        THEN { [files |-> EmptyFiles, dirs |-> {}, ok |-> FALSE] }
        ELSE { [files |-> RemoveFiles(f, inside), dirs |-> ds \ {category}, ok |-> TRUE] }

\* the loop of delete_all over os.listdir(BASE_UPLOAD_DIR): sub-directories are
\* rmtree'd, files removed; a fault stops it with any part of the items removed
ClearRoot(f, ds, fault) ==
    IF fault = "blob"
    THEN { [files |-> RemoveFiles(f, S), dirs |-> ds \ D, ok |-> FALSE] :
             <<S, D>> \in { sd \in (SUBSET DOMAIN f) \X (SUBSET ds) :
                              /\ \A p \in DOMAIN f : p[1] \in sd[2] => p \in sd[1]
                              /\ (DOMAIN f \cup ds # {}) => (sd[1] # DOMAIN f \/ sd[2] # ds) } }
    ELSE { [files |-> EmptyFiles, dirs |-> {}, ok |-> TRUE] }

---------------------------------------------------------------------------
(* Requests: the inputs the handlers are driven with *)

\* category inputs that name a directory of images/: pets, ".", "",
\* "pets/..", "./pets"
PlainCategories ==
    { << "pets" >>, << "." >>, << >>, << "pets", "/", ".", "." >>, << ".", "/", "pets" >> }

\* category inputs that leave images/ or nest: "..", "../etc", "pets/dogs",
\* "/pets", "..pets", "pets\dogs", "pets/../../etc"
OddCategories ==
    { << ".", "." >>, << ".", ".", "/", "etc" >>, << "pets", "/", "dogs" >>, << "/", "pets" >>,
      << ".", ".", "pets" >>, << "pets", "\\", "dogs" >>,
      << "pets", "/", ".", ".", "/", ".", ".", "/", "etc" >> }

Categories == PlainCategories \cup OddCategories

\* names of uploaded files with an image extension: a.png, a.PNG, a.tar.png
ImageNames == { << "a", ".", "png" >>, << "a", ".", "PNG" >>, << "a", ".", "tar", ".", "png" >> }

\* other names: a.Exe, a, .png, a., a.png/b
OtherNames ==
    { << "a", ".", "Exe" >>, << "a" >>, << ".", "png" >>, << "a", "." >>,
      << "a", ".", "png", "/", "b" >> }

UploadNames == ImageNames \cup OtherNames

\* uploaded contents: 5 bytes, exactly MAX_FILE_SIZE bytes, one byte more
Small == [tag |-> 1, size |-> 5]
Full == [tag |-> 2, size |-> MAX_FILE_SIZE]
Oversized == [tag |-> 3, size |-> MAX_FILE_SIZE + 1]
Contents == { Small, Full, Oversized }

\* the upload requests: category pets with either content that fits, every
\* plain category and every image name with the small one, and each odd category, other name and oversized content in an
\* otherwise ordinary request and all together
UploadRequests ==
    ({ << "pets" >> } \X { << "a", ".", "png" >> } \X { Small, Full })
      \cup (PlainCategories \X { << "a", ".", "png" >> } \X { Small })
      \cup ({ << "pets" >> } \X ImageNames \X { Small })
      \cup (OddCategories \X { << "a", ".", "png" >> } \X { Small })
      \cup ({ << "pets" >> } \X OtherNames \X { Small })
      \cup ({ << "pets" >>, << "." >> } \X { << "a", ".", "png" >> } \X { Oversized })
      \cup { << << ".", ".", "/", "etc" >>, << "a", ".", "Exe" >>, Oversized >> }

\* the values uuid.uuid4() can return
Uuids == 1..MaxUuid

\* filenames asked of get_image and delete_image: the names an upload can
\* generate, and "..", "x/1.png", "x\1.png"
Filenames ==
    { GeneratedName(u, << "png" >>) : u \in Uuids }
      \cup { << ".", "." >>, << "x", "/", "1", ".", "png" >>, << "x", "\\", "1", ".", "png" >> }

\* categories asked of delete_category: pets, ".", "", "pets/..", "..",
\* "pets/dogs", "dogs"
DeletedCategories ==
    { << "pets" >>, << "." >>, << >>, << "pets", "/", ".", "." >>, << ".", "." >>,
      << "pets", "/", "dogs" >>, << "dogs" >> }

\* the step of a handler that an injected failure hits: the directory
\* creation, the open or the write of the file, the removal of files, the
\* database transaction, the db.refresh after the commit
UploadFaults == { "none", "mkdir", "open", "write", "row", "refresh" }
DeleteFaults == { "none", "blob", "row" }

---------------------------------------------------------------------------
(* Responses *)

Resp(op, status, stage) ==
    [ op |-> op, status |-> status, stage |-> stage, category |-> << >>,
      filename |-> << >>, content |-> NoContent, total |-> 0, blob |-> "" ]

State(f, ds, rs, id, resp) ==
    [ files |-> f, dirs |-> ds, rows |-> rs, nextId |-> id, last |-> resp ]

\* no upload in flight; the fields keep what the last one did
UpIdle == [ pc |-> "idle", category |-> << >>, filename |-> << >>, content |-> NoContent,
            fresh |-> FALSE, overlap |-> FALSE, status |-> 0 ]

\* no delete in flight; status keeps how the last one ended
DelIdle == [ pc |-> "idle", op |-> "", category |-> << >>, filename |-> << >>, images |-> {},
             status |-> 0 ]

---------------------------------------------------------------------------
(* The handlers, each as the state it returns in *)

\* upload_image, the checks that come before anything is touched: the
\* rejection, or the normalised category and the extension
upload_checks(category, name, content) ==
    LET vc == validate_category(category)
        ve == validate_file_extension(name)
        none == [ok |-> FALSE, resp |-> Resp("upload", 0, ""), category |-> << >>, ext |-> << >>]
    IN  IF ~vc.ok THEN [ none EXCEPT !.resp = Resp("upload", 400, "category") ]
        ELSE IF ~ve.ok THEN [ none EXCEPT !.resp = Resp("upload", 400, "extension") ]
        ELSE IF content.size > MAX_FILE_SIZE THEN [ none EXCEPT !.resp = Resp("upload", 413, "size") ]
        ELSE [ none EXCEPT !.ok = TRUE, !.category = vc.value, !.ext = ve.value ]

\* upload_image from the generated name on: the directory, the file, the row.
\* The except branch of the insert also takes a db.refresh that fails once
\* the commit has gone through: the file is removed and the row is there.
upload_store(safe_category, ext, content, u, fault) ==
    LET filename == GeneratedName(u, ext)
        dirs1 == makedirs(dirs, safe_category)
        file_path == PathOf(safe_category, filename)
        made(status, stage) ==
            [ Resp("upload", status, stage) EXCEPT
                !.category = safe_category, !.filename = filename ]
    IN  IF fault = "mkdir" THEN State(files, dirs, rows, nextId, made(500, "mkdir"))
        ELSE IF fault = "open" THEN State(files, dirs1, rows, nextId, made(500, "write"))
        ELSE IF fault = "write"
        THEN State(WriteFailureCleanup(PutFile(files, file_path, NoContent), file_path),
                   dirs1, rows, nextId, made(500, "write"))
        ELSE
        LET files1 == PutFile(files, file_path, Stored(content))
        IN  IF fault = "row" \/ DuplicateFilename(rows, filename)
            THEN State(InsertFailureCleanup(files1, file_path), dirs1, rows, nextId,
                       made(500, "row"))
            ELSE
            LET rows1 == rows \cup { [id |-> nextId, filename |-> filename,
                                      category |-> safe_category] }
            IN  IF fault = "refresh"
                THEN State(InsertFailureCleanup(files1, file_path), dirs1, rows1, nextId + 1,
                           made(500, "refresh"))
                ELSE State(files1, dirs1, rows1, nextId + 1,
                           [ made(200, "done") EXCEPT !.content = content ])

\* upload_image (POST /upload)
upload_image(category, name, content, u, fault) ==
    LET checked == upload_checks(category, name, content)
    IN  IF ~checked.ok THEN State(files, dirs, rows, nextId, checked.resp)
        ELSE upload_store(checked.category, checked.ext, content, u, fault)

\* delete_all without the 404: an empty table is a success that clears the root
delete_all_empty_clears(f, ds, rs, id) ==
    State(EmptyFiles, {}, {}, id, Resp("delete_all", 200, "done"))

\* what delete_all answers when the table is empty
delete_all_empty(f, ds, rs, id) ==
    State(f, ds, rs, id, Resp("delete_all", 404, "lookup"))

\* delete_all (DELETE /images/all): the set of states it can return in
delete_all(fault) ==
    LET total == Cardinality(rows)
    IN  IF total = 0 THEN { delete_all_empty(files, dirs, rows, nextId) }
        ELSE { IF ~fs.ok
               THEN State(fs.files, fs.dirs, rows, nextId, Resp("delete_all", 500, "blob"))
               ELSE IF fault = "row"
               THEN State(fs.files, fs.dirs, rows, nextId, Resp("delete_all", 500, "row"))
               ELSE State(fs.files, fs.dirs, {}, nextId,
                          [ Resp("delete_all", 200, "done") EXCEPT !.total = total ])
               : fs \in ClearRoot(files, dirs, fault) }

\* delete_category (DELETE /images/category/{category})
delete_category(category, fault) ==
    LET vc == validate_category(category)
        req(status, stage) == Resp("delete_category", status, stage)
    IN  IF ~vc.ok THEN { State(files, dirs, rows, nextId, req(400, "category")) }
        ELSE
        LET safe_category == vc.value
            images == ByCategory(rows, safe_category)
            got(status, stage) == [ req(status, stage) EXCEPT !.category = safe_category ]
            removed == IF DirExists(dirs, safe_category)
                       THEN Rmtree(files, dirs, safe_category, fault)
                       ELSE { [files |-> files, dirs |-> dirs, ok |-> TRUE] }
        IN  IF images = {} THEN { State(files, dirs, rows, nextId, got(404, "lookup")) }
            ELSE { IF ~fs.ok
                   THEN State(fs.files, fs.dirs, rows, nextId, got(500, "blob"))
                   ELSE IF fault = "row"
                   THEN State(fs.files, fs.dirs, rows, nextId, got(500, "row"))
                   ELSE State(fs.files, fs.dirs, rows \ ByCategory(rows, safe_category), nextId,
                              [ got(200, "done") EXCEPT !.total = Cardinality(images) ])
                   : fs \in removed }

\* get_image (GET /images/{filename}): the response
get_image(filename) ==
    LET req(status, stage) == Resp("get", status, stage)
        found == ByFilename(rows, filename)
    IN  IF ~valid_filename(filename) THEN req(400, "filename")
        ELSE IF found = {} THEN req(404, "lookup")
        ELSE LET image == CHOOSE r \in found : TRUE
                 path == PathOf(image.category, filename)
             IN  IF path \notin DOMAIN files
                 THEN [ req(404, "blob") EXCEPT !.category = image.category, !.filename = filename ]
                 ELSE [ req(200, "done") EXCEPT !.category = image.category,
                                                !.filename = filename, !.content = files[path] ]

\* delete_image (DELETE /images/{filename})
delete_image(filename, fault) ==
    LET req(status, stage) == Resp("delete_image", status, stage)
        found == ByFilename(rows, filename)
    IN  IF ~valid_filename(filename) THEN State(files, dirs, rows, nextId, req(400, "filename"))
        ELSE IF found = {} THEN State(files, dirs, rows, nextId, req(404, "lookup"))
        ELSE
        LET image == CHOOSE r \in found : TRUE
            path == PathOf(image.category, filename)
            there == path \in DOMAIN files
            got(status, stage) ==
                [ req(status, stage) EXCEPT !.category = image.category, !.filename = filename,
                                            !.blob = IF there THEN "removed" ELSE "absent" ]
        IN  IF there /\ fault = "blob" THEN State(files, dirs, rows, nextId, got(500, "blob"))
            ELSE
            LET files1 == RemoveFiles(files, {path})
            IN  IF fault = "row" THEN State(files1, dirs, rows, nextId, got(500, "row"))
                ELSE State(files1, dirs, DeleteRow(rows, image), nextId, got(200, "done"))

---------------------------------------------------------------------------
(* The service, one request at a time *)

Init ==
    /\ files = EmptyFiles
    /\ dirs = {}
    /\ rows = {}
    /\ nextId = 1
    /\ last = Resp("none", 0, "")
    /\ up = UpIdle
    /\ del = DelIdle

Returns(s) ==
    /\ files' = s.files
    /\ dirs' = s.dirs
    /\ rows' = s.rows
    /\ nextId' = s.nextId
    /\ last' = s.last
    /\ UNCHANGED << up, del >>

Upload ==
    /\ nextId <= MaxId
    /\ \E req \in UploadRequests :
          LET checked == upload_checks(req[1], req[2], req[3])
          IN  IF ~checked.ok
              THEN Returns(upload_image(req[1], req[2], req[3], 1, "none"))
              ELSE \E u \in Uuids, fault \in UploadFaults :
                       Returns(upload_image(req[1], req[2], req[3], u, fault))

DeleteAll ==
    \E fault \in DeleteFaults : \E s \in delete_all(fault) : Returns(s)

DeleteCategory ==
    \E category \in DeletedCategories, fault \in DeleteFaults :
        \E s \in delete_category(category, fault) : Returns(s)

GetImage ==
    \E filename \in Filenames :
        Returns(State(files, dirs, rows, nextId, get_image(filename)))

DeleteImage ==
    \E filename \in Filenames, fault \in DeleteFaults :
        Returns(delete_image(filename, fault))

Next == Upload \/ DeleteAll \/ DeleteCategory \/ GetImage \/ DeleteImage

Spec == Init /\ [][Next]_vars

---------------------------------------------------------------------------
(* The service with an upload and a delete in flight at once: each handler
   advances by one filesystem call or one database transaction at a time.
   No failure is injected here; calls fail only for what the other request
   did. *)

\* upload_image up to the generated name (lines 75-91)
U_Begin ==
    /\ up.pc = "idle"
    /\ nextId <= MaxId
    /\ \E req \in UploadRequests :
         LET checked == upload_checks(req[1], req[2], req[3])
         IN  IF ~checked.ok
             THEN /\ last' = checked.resp
                  /\ UNCHANGED up
             ELSE \E u \in Uuids :
                    LET filename == GeneratedName(u, checked.ext)
                    IN  /\ up' = [ pc |-> "mkdir", category |-> checked.category,
                                   filename |-> filename, content |-> req[3],
                                   fresh |-> /\ ~DuplicateFilename(rows, filename)
                                             /\ \A p \in DOMAIN files : p[2] # filename,
                                   overlap |-> del.pc # "idle", status |-> 0 ]
                        /\ UNCHANGED last
    /\ UNCHANGED << files, dirs, rows, nextId, del >>

\* os.makedirs(category_dir, exist_ok=True)
U_Makedirs ==
    /\ up.pc = "mkdir"
    /\ dirs' = makedirs(dirs, up.category)
    /\ up' = [ up EXCEPT !.pc = "open" ]
    /\ UNCHANGED << files, rows, nextId, last, del >>

UploadResp(status, stage) ==
    [ Resp("upload", status, stage) EXCEPT !.category = up.category, !.filename = up.filename ]

\* aiofiles.open(file_path, "wb"): creates or truncates the file, and fails
\* when the directory is gone; the except branch then finds no file to remove
U_Open ==
    /\ up.pc = "open"
    /\ IF DirExists(dirs, up.category)
       THEN /\ files' = PutFile(files, PathOf(up.category, up.filename), NoContent)
            /\ up' = [ up EXCEPT !.pc = "write" ]
            /\ UNCHANGED last
       ELSE /\ files' = WriteFailureCleanup(files, PathOf(up.category, up.filename))
            /\ up' = [ up EXCEPT !.pc = "idle", !.status = 500 ]
            /\ last' = UploadResp(500, "write")
    /\ UNCHANGED << dirs, rows, nextId, del >>

\* the copy loop and the close: the bytes reach the file if it is still
\* linked, and an unlinked file takes them with it
U_Write ==
    /\ up.pc = "write"
    /\ LET path == PathOf(up.category, up.filename)
       IN  files' = IF path \in DOMAIN files THEN PutFile(files, path, Stored(up.content))
                    ELSE files
    /\ up' = [ up EXCEPT !.pc = "insert" ]
    /\ UNCHANGED << dirs, rows, nextId, last, del >>

\* db.add(image); db.commit(), and the except branch on a duplicate filename
U_Insert ==
    /\ up.pc = "insert"
    /\ IF DuplicateFilename(rows, up.filename)
       THEN /\ files' = InsertFailureCleanup(files, PathOf(up.category, up.filename))
            /\ up' = [ up EXCEPT !.pc = "idle", !.status = 500 ]
            /\ last' = UploadResp(500, "row")
            /\ UNCHANGED << rows, nextId >>
       ELSE /\ rows' = rows \cup { [id |-> nextId, filename |-> up.filename,
                                    category |-> up.category] }
            /\ nextId' = nextId + 1
            /\ up' = [ up EXCEPT !.pc = "idle", !.status = 200 ]
            /\ last' = [ UploadResp(200, "done") EXCEPT !.content = up.content ]
            /\ UNCHANGED files
    /\ UNCHANGED << dirs, del >>

\* a delete that starts while an upload is in flight overlaps it
Overlapped == [ up EXCEPT !.overlap = up.overlap \/ up.pc # "idle" ]

\* delete_image up to the lookup of the row (lines 247-252)
D_BeginImage ==
    /\ del.pc = "idle"
    /\ \E filename \in Filenames :
         LET found == ByFilename(rows, filename)
         IN  IF ~valid_filename(filename)
             THEN last' = Resp("delete_image", 400, "filename") /\ UNCHANGED << del, up >>
             ELSE IF found = {}
             THEN last' = Resp("delete_image", 404, "lookup") /\ UNCHANGED << del, up >>
             ELSE /\ del' = [ DelIdle EXCEPT !.pc = "blob", !.op = "delete_image",
                                !.filename = filename, !.images = found,
                                !.category = (CHOOSE r \in found : TRUE).category ]
                  /\ up' = Overlapped
                  /\ UNCHANGED last
    /\ UNCHANGED << files, dirs, rows, nextId >>

\* delete_category up to the query of the rows (lines 165-169)
D_BeginCategory ==
    /\ del.pc = "idle"
    /\ \E category \in DeletedCategories :
         LET vc == validate_category(category)
             images == ByCategory(rows, vc.value)
         IN  IF ~vc.ok
             THEN last' = Resp("delete_category", 400, "category") /\ UNCHANGED << del, up >>
             ELSE IF images = {}
             THEN /\ last' = [ Resp("delete_category", 404, "lookup") EXCEPT !.category = vc.value ]
                  /\ UNCHANGED << del, up >>
             ELSE /\ del' = [ DelIdle EXCEPT !.pc = "blob", !.op = "delete_category",
                                !.category = vc.value, !.images = images ]
                  /\ up' = Overlapped
                  /\ UNCHANGED last
    /\ UNCHANGED << files, dirs, rows, nextId >>

\* delete_all up to the count (lines 134-136)
D_BeginAll ==
    /\ del.pc = "idle"
    /\ IF Cardinality(rows) = 0
       THEN last' = Resp("delete_all", 404, "lookup") /\ UNCHANGED << del, up >>
       ELSE /\ del' = [ DelIdle EXCEPT !.pc = "blob", !.op = "delete_all", !.images = rows ]
            /\ up' = Overlapped
            /\ UNCHANGED last
    /\ UNCHANGED << files, dirs, rows, nextId >>

DeleteResp(status, stage) ==
    [ Resp(del.op, status, stage) EXCEPT !.category = del.category, !.filename = del.filename ]

\* the blob step: os.remove of the file, shutil.rmtree of the category
\* directory, or the loop over images/, each only if the path exists
D_Blob ==
    /\ del.pc = "blob"
    /\ \E fs \in CASE del.op = "delete_image" ->
                        { [files |-> RemoveFiles(files, { PathOf(del.category, del.filename) }),
                           dirs |-> dirs, ok |-> TRUE] }
                   [] del.op = "delete_category" ->
                        IF DirExists(dirs, del.category)
                        THEN Rmtree(files, dirs, del.category, "none")
                        ELSE { [files |-> files, dirs |-> dirs, ok |-> TRUE] }
                   [] OTHER -> ClearRoot(files, dirs, "none") :
         /\ files' = fs.files
         /\ dirs' = fs.dirs
         /\ IF fs.ok
            THEN del' = [ del EXCEPT !.pc = "row" ] /\ UNCHANGED last
            ELSE del' = [ DelIdle EXCEPT !.status = 500 ] /\ last' = DeleteResp(500, "blob")
    /\ UNCHANGED << rows, nextId, up >>

\* the row step: the DELETE of the row, of the rows of the category as they
\* are now, or of every row, and the commit
D_Row ==
    /\ del.pc = "row"
    /\ rows' = CASE del.op = "delete_image" -> rows \ del.images
                 [] del.op = "delete_category" -> rows \ ByCategory(rows, del.category)
                 [] OTHER -> {}
    /\ last' = [ DeleteResp(200, "done") EXCEPT !.total = Cardinality(del.images) ]
    /\ del' = [ DelIdle EXCEPT !.status = 200 ]
    /\ UNCHANGED << files, dirs, nextId, up >>

NextC ==
    \/ U_Begin \/ U_Makedirs \/ U_Open \/ U_Write \/ U_Insert
    \/ D_BeginImage \/ D_BeginCategory \/ D_BeginAll \/ D_Blob \/ D_Row

SpecC == Init /\ [][NextC]_vars

---------------------------------------------------------------------------
(* Properties of the service, one request at a time *)

RowPath(r) == PathOf(r.category, r.filename)

\* a row whose file is absent
OrphanRows == { r \in rows : RowPath(r) \notin DOMAIN files }

\* a file with no row
OrphanFiles == { p \in DOMAIN files : \A r \in rows : RowPath(r) # p }

Deletes == { "delete_image", "delete_category", "delete_all" }

\* C1: after every returned request, a row with category C and filename F
\* exists if and only if a file exists at images/C/F.
C1_RowIffFile == OrphanRows = {} /\ OrphanFiles = {}

\* C2: a delete that stops with a database error after its blob step leaves
\* no row whose file is absent.
C2_NoOrphanRowAfterStoppedDelete ==
    (last.op \in Deletes /\ last.status = 500 /\ last.stage = "row") => OrphanRows = {}

\* C3: an upload whose insert fails after the file was written (a database
\* error or a duplicate filename) reports an error, leaves the rows as they
\* were and leaves no file at its path.
C3_InsertFailureRollsBack ==
    [][ (last'.op = "upload" /\ last'.stage = "row")
          => /\ last'.status = 500
             /\ rows' = rows
             /\ PathOf(last'.category, last'.filename) \notin DOMAIN files' ]_vars

C3_Witness ==
    /\ last.op = "upload" /\ last.stage = "row" /\ last.status = 500
    /\ DuplicateFilename(rows, last.filename)

\* the requests C4 speaks of: a category that leaves images/ or nests, a name
\* without an image extension, or more than 10 MiB of content
Unacceptable(category, name, content) ==
    \/ category \in OddCategories
    \/ name \in OtherNames
    \/ content.size > 10 * 1024 * 1024

\* C4: an upload with an invalid category, an empty or disallowed extension or
\* oversized content is rejected (400 or 413), and a rejected upload leaves
\* the directories, the files and the table exactly as they were.
C4_RejectedBeforeMutation ==
    /\ \A category \in Categories, name \in UploadNames, content \in Contents :
         Unacceptable(category, name, content)
           => LET checked == upload_checks(category, name, content)
              IN  ~checked.ok /\ checked.resp.status \in {400, 413}
    /\ [][ (last'.op = "upload" /\ last'.status \in {400, 413})
             => UNCHANGED << files, dirs, rows, nextId >> ]_vars

C4_Witness ==
    /\ last.op = "upload" /\ last.status = 400 /\ last.stage = "category"
    /\ rows # {} /\ DOMAIN files # {}

\* C5: after a successful delete_image the row is gone, no file is left at
\* images/<category>/<filename>, and get_image of the filename answers 404;
\* also when the file was absent before the delete.
C5_DeleteThenGetNotFound ==
    (last.op = "delete_image" /\ last.status = 200)
      => /\ ByFilename(rows, last.filename) = {}
         /\ PathOf(last.category, last.filename) \notin DOMAIN files
         /\ get_image(last.filename).status = 404

C5_Witness ==
    last.op = "delete_image" /\ last.status = 200 /\ last.blob = "absent"

\* C6: right after a successful upload, get_image of the generated filename
\* serves the file at images/<category>/<filename>, and its content is the
\* uploaded content.
C6_UploadThenGetRoundTrip ==
    (last.op = "upload" /\ last.status = 200)
      => LET got == get_image(last.filename)
         IN  /\ got.status = 200
             /\ got.category = last.category
             /\ got.content = last.content
             /\ files[PathOf(last.category, last.filename)] = last.content

C6_Witness ==
    last.op = "upload" /\ last.status = 200 /\ last.content = Full /\ Cardinality(rows) = 2

\* C8 as stated: delete_all on an empty table succeeds with a count of 0 and
\* clears what is left under the root.
C8_DeleteAllNeverNotFound ==
    [][ (last'.op = "delete_all" /\ rows = {})
          => /\ last'.status = 200 /\ last'.total = 0
             /\ files' = EmptyFiles /\ dirs' = {} ]_vars

\* C8 as amended: delete_all answers 404 exactly when the table is empty, and
\* then removes nothing; when it succeeds it answers the number of rows and
\* leaves no file, no category directory and no row.
C8_DeleteAllNotFoundWhenEmpty ==
    [][ last'.op = "delete_all"
          => /\ (rows = {}) <=> (last'.status = 404)
             /\ last'.status = 404 => UNCHANGED << files, dirs, rows, nextId >>
             /\ last'.status = 200
                  => /\ files' = EmptyFiles /\ dirs' = {} /\ rows' = {}
                     /\ last'.total = Cardinality(rows) ]_vars

C8_Witness ==
    last.op = "delete_all" /\ last.status = 404 /\ dirs # {}

\* C9: delete_category(C), for a category validate_category accepts, leaves
\* every row of another category and every file under another category
\* directory as it was.
C9_OtherCategoriesUntouched ==
    [][ (last'.op = "delete_category" /\ last'.status # 400)
          => /\ \A r \in rows : r.category # last'.category => r \in rows'
             /\ \A p \in DOMAIN files :
                  p[1] # last'.category => (p \in DOMAIN files' /\ files'[p] = files[p]) ]_vars

\* C10: a failed upload leaves the file of every record that existed before
\* it in place with its content.
C10_FailedUploadKeepsFiles ==
    [][ (last'.op = "upload" /\ last'.status = 500)
          => \A r \in rows :
               RowPath(r) \in DOMAIN files
                 => (RowPath(r) \in DOMAIN files' /\ files'[RowPath(r)] = files[RowPath(r)]) ]_vars

\* C7: once an upload (of a freshly generated name) that ran alongside a
\* delete has returned with its row inserted, and the delete has returned
\* too, the row has its file.
C7_RacedUploadRowHasFile ==
    ( /\ up.pc = "idle" /\ del.pc = "idle"
      /\ up.status = 200 /\ up.overlap /\ up.fresh /\ del.status = 200
      /\ \E r \in rows : r.filename = up.filename /\ r.category = up.category )
      => PathOf(up.category, up.filename) \in DOMAIN files

====
